---- MODULE Spec2Model ----
(***************************************************************************)
(* Model of install.py: the module build orchestration and image assembly  *)
(* pipeline of the Hibridus installer.  main() discovers the build.py      *)
(* scripts, runs each one, checks the JSON document it prints, copies the  *)
(* files it declares into cache/iso_root and finally calls xorriso and     *)
(* limine.                                                                 *)
(***************************************************************************)
EXTENDS Integers, Sequences, FiniteSets, TLC

\* ------------------------------------------------------------------------
\* Bounds of the model
\* ------------------------------------------------------------------------
MaxSteps == 2   \* build.py scripts found by one discovery
MaxCats  == 2   \* top-level keys of one manifest
MaxFiles == 1   \* entries of one category mapping

\* ------------------------------------------------------------------------
\* Paths.  A string is a sequence of tokens in which "/" is the separator;
\* a path is the sequence of its segments, absolute from the file system
\* root.  Path.cwd() is <<"cwd">>.
\* ------------------------------------------------------------------------
Cwd == <<"cwd">>

\* Path(s): pathlib drops the separators; a leading "/" makes it absolute
PathOf(s) ==
    [abs  |-> (Len(s) > 0 /\ s[1] = "/"),
     segs |-> SelectSeq(s, LAMBDA t : t # "/")]

\* base / p : an absolute right operand replaces the left one
Join(base, p) == IF p.abs THEN p.segs ELSE base \o p.segs

\* Path.name : the last segment, "" for the empty path
NameOf(segs) == IF Len(segs) = 0 THEN <<>> ELSE <<segs[Len(segs)]>>

\* Path.parent
ParentOf(segs) == IF Len(segs) = 0 THEN <<>> ELSE SubSeq(segs, 1, Len(segs) - 1)

\* the path and all its ancestors (what mkdir(parents=True) walks)
Ancestors(segs) == {SubSeq(segs, 1, n) : n \in 1..Len(segs)}

\* what the file system makes of a path: ".." steps back to the parent
\* (no symbolic links).  A segment stays when the ".." after it never
\* outnumber the names after it.
Norm(segs) ==
    LET Stays(p, x) ==
            /\ p[x] # ".."
            /\ \A y \in (x + 1)..Len(p) :
                  Cardinality({z \in (x + 1)..y : p[z] = ".."})
                    <= Cardinality({z \in (x + 1)..y : p[z] # ".."})
    IN  CHOOSE out \in
            UNION {{[m \in 1..Cardinality(kept) |->
                        p[CHOOSE x \in kept :
                              Cardinality({z \in kept : z <= x}) = m]] :
                      kept \in {IF \A x \in 1..Len(p) : p[x] # ".."
                                  THEN 1..Len(p)
                                  ELSE {x \in 1..Len(p) : Stays(p, x)}}} :
                   p \in {segs}} : TRUE

\* the directories mkdir(parents=True, exist_ok=True) leaves behind
MadeDirs(dir) == {Norm(a) : a \in Ancestors(dir)}

ROOT   == Cwd \o <<"cache", "iso_root">>
BOOT   == ROOT \o <<"boot">>
KERNEL == ROOT \o <<"MASTER">>
ADDONS == KERNEL \o <<"addons">>
BUILD  == Cwd \o <<"build">>

BASES ==
    [kind \in {"generic", "boot", "master", "addon"} |->
        CASE kind = "generic" -> ROOT
          [] kind = "boot"    -> BOOT
          [] kind = "master"  -> KERNEL
          [] kind = "addon"   -> ADDONS]

\* ------------------------------------------------------------------------
\* JSON documents a build step can print
\* ------------------------------------------------------------------------
Str(s) == [type |-> "string", s |-> s]
Num    == [type |-> "number", s |-> <<>>]

\* keys of a category mapping (JSON keys are always strings)
FileKeys == {<<"limine">>, <<"gone">>}
\* values of a category mapping: "limine/", "" and a number
SubVals  == {Str(<<"limine", "/">>), Str(<<>>), Num}
\* top-level keys
Kinds    == {"generic", "boot", "unknown"}

SeqsUpTo(S, n) == UNION {[1..m -> S] : m \in 0..n}

\* a Python dict keeps insertion order and has no duplicate key
FileMaps ==
    {m \in SeqsUpTo([file : FileKeys, sub : SubVals], MaxFiles) :
        \A a, b \in DOMAIN m : a # b => m[a].file # m[b].file}

CatVals ==
    {[isdict |-> TRUE, files |-> m] : m \in FileMaps}
        \cup {[isdict |-> FALSE, files |-> <<>>]}

\* main() never looks at the value of a key that is not in BASES: one value
\* stands for all of them
ValsOf(kind) ==
    IF kind \in DOMAIN BASES THEN CatVals
                             ELSE {[isdict |-> TRUE, files |-> <<>>]}

KindSeqs ==
    {ks \in SeqsUpTo(Kinds, MaxCats) :
        \A a, b \in DOMAIN ks : a # b => ks[a] # ks[b]}

Manifests ==
    UNION {{[x \in DOMAIN ks |-> [kind |-> ks[x], val |-> f[x]]] :
               f \in {g \in [DOMAIN ks -> CatVals] :
                         \A x \in DOMAIN ks : g[x] \in ValsOf(ks[x])}} :
           ks \in KindSeqs}

\* the value json.loads returns: an object, or something that is not a dict
JsonValues ==
    {[type |-> "object", items |-> d] : d \in Manifests}
        \cup {[type |-> t, items |-> <<>>] : t \in {"array", "null"}}

NoResult == [type |-> "none", items |-> <<>>]

\* the text a child prints: well-formed JSON carrying a value, or not JSON
Outputs ==
    {[wellformed |-> TRUE, value |-> v] : v \in JsonValues}
        \cup {[wellformed |-> FALSE, value |-> NoResult]}

\* Manifests whose subpaths lead out of the category root: the absolute
\* path /cwd/src/1/ and the climbing path ../../src/1/, next to limine/.
\* One entry in one category, the key being the artifact or the script;
\* one manifest of two categories, the first with two entries; and the
\* documents main() refuses.
EscapingSubs ==
    {Str(<<"limine", "/">>),
     Str(<<"/", "cwd", "/", "src", "/", "1", "/">>),
     Str(<<"..", "/", "..", "/", "src", "/", "1", "/">>)}

EscapingKeys == {<<"limine">>, <<"build.py">>}

EscapingManifests ==
    {<<[kind |-> kd,
        val  |-> [isdict |-> TRUE, files |-> <<[file |-> f, sub |-> v]>>]]>> :
        kd \in {"generic", "boot"}, f \in EscapingKeys, v \in EscapingSubs}
      \cup {<<>>,
            <<[kind |-> "generic",
               val  |-> [isdict |-> TRUE,
                         files |-> <<[file |-> <<"limine">>,
                                      sub  |-> Str(<<"limine", "/">>)],
                                     [file |-> <<"build.py">>,
                                      sub  |-> Str(<<"limine", "/">>)]>>]],
              [kind |-> "boot",
               val  |-> [isdict |-> TRUE,
                         files |-> <<[file |-> <<"limine">>,
                                      sub  |-> Str(<<"..", "/", "..", "/",
                                                     "src", "/", "1", "/">>)]>>]]>>,
            <<[kind |-> "unknown", val |-> [isdict |-> TRUE, files |-> <<>>]]>>,
            <<[kind |-> "boot", val |-> [isdict |-> FALSE, files |-> <<>>]]>>}

EscapingOutputs ==
    {[wellformed |-> TRUE, value |-> [type |-> "object", items |-> d]] :
        d \in EscapingManifests}
      \cup {[wellformed |-> TRUE, value |-> [type |-> "array", items |-> <<>>]],
            [wellformed |-> FALSE, value |-> NoResult]}

\* json.loads(out)
Loads(out) ==
    IF out.wellformed THEN [ok |-> TRUE, value |-> out.value]
                      ELSE [ok |-> FALSE, value |-> NoResult]

\* ------------------------------------------------------------------------
\* Working directories of the build steps.  A name in a working directory
\* is missing, a regular file with some content, or a directory (kind "dir":
\* src.exists() is true of it and shutil.copy refuses it).
\* ------------------------------------------------------------------------
Steps == 1..MaxSteps

Missing    == [kind |-> "missing", data |-> 0]
Regular(c) == [kind |-> "file", data |-> c]

\* the script itself: every working directory holds its build.py
ScriptText == Regular(0)

\* what a child leaves in its directory: the file limine is its artifact
\* (its content differs from step to step)
Built(s) ==
    [n \in {<<"limine">>, <<"build.py">>} |->
        IF n = <<"build.py">> THEN ScriptText ELSE Regular(s)]

Unbuilt ==
    [n \in {<<"limine">>, <<"build.py">>} |->
        IF n = <<"build.py">> THEN ScriptText ELSE Missing]

\* the state of build_dir / file
Lookup(dir, rel) == IF rel \in DOMAIN dir THEN dir[rel] ELSE Missing

\* script.parent of step s: its build.py is src/<s>/build.py
StepDir(s) == Cwd \o <<"src", ToString(s)>>

\* the regular files of the working directories ss, as files on disk
WdFiles(w, ss) ==
    UNION {{[path |-> StepDir(s) \o n, data |-> w[s][n].data] :
               n \in {m \in DOMAIN Unbuilt : w[s][m].kind = "file"}} :
           s \in ss}

\* the working directories ss and the directories above them
WdDirs(ss) == UNION {Ancestors(StepDir(s)) : s \in ss}

\* the working directories after the files t on disk: a file of t that is
\* at a name of a working directory is the file of that name
WdAfter(w, t) ==
    [s \in Steps |->
        [n \in DOMAIN Unbuilt |->
            IF \E r \in t : r.path = StepDir(s) \o n
              THEN Regular((CHOOSE r \in t : r.path = StepDir(s) \o n).data)
              ELSE w[s][n]]]

\* the files of t that are not at a name of a working directory
TreeAfter(t) ==
    {r \in t : \A s \in Steps, n \in DOMAIN Unbuilt : r.path # StepDir(s) \o n}

\* the state of a path on disk
Stat(t, d, path) ==
    IF \E r \in t : r.path = path
      THEN Regular((CHOOSE r \in t : r.path = path).data)
    ELSE IF path \in d THEN [kind |-> "dir", data |-> 0]
    ELSE Missing

\* ------------------------------------------------------------------------
\* State
\* ------------------------------------------------------------------------
VARIABLES
    pc,             \* where main() is
    scripts,        \* the list find_build_scripts() returned
    i,              \* index in scripts of the script of the outer loop
    result,         \* the value run_build returned for that script
    k,              \* index of the (kind, files) item of the middle loop
    j,              \* index of the (file, sub) entry of the inner loop
    wd,             \* working directory of every step
    tree,           \* regular files on disk outside the working directories,
                    \* a set of [path, data]
    dirs,           \* directories on disk outside the working directories
    runs,           \* how many times run_build started each step's child
    rc,             \* how each step's child process ended
    parsed,         \* steps whose captured output was given to json.loads
    nplaced,        \* how many files place_file copied for each step
    finished,       \* steps whose loop body ran to its end
    diag,           \* the last "! ..." error line or traceback printed
    exit_status,    \* exit status of the orchestrator, -1 while it runs
    xorriso_calls,  \* subprocess.run calls of xorriso
    limine_calls,   \* subprocess.run calls of limine
    iso             \* build/hibridus-live-iso.iso

vars == <<pc, scripts, i, result, k, j, wd, tree, dirs, runs, rc, parsed,
          nplaced,
          finished, diag, exit_status, xorriso_calls, limine_calls, iso>>

NoDiag == [msg |-> "", step |-> 0, arg |-> <<>>]

Init ==
    /\ pc = "start"
    /\ scripts = <<>>
    /\ i = 0
    /\ result = NoResult
    /\ k = 0
    /\ j = 0
    /\ wd = [s \in Steps |-> Unbuilt]
    /\ tree = {}
    /\ dirs = Ancestors(Cwd)
    /\ runs = [s \in Steps |-> 0]
    /\ rc = [s \in Steps |-> "not run"]
    /\ parsed = {}
    /\ nplaced = [s \in Steps |-> 0]
    /\ finished = {}
    /\ diag = NoDiag
    /\ exit_status = -1
    /\ xorriso_calls = 0
    /\ limine_calls = 0
    /\ iso = "absent"

\* The disk an earlier, successful run leaves behind when its first step
\* printed {"boot": {"limine": "limine/"}}: nothing in main() clears
\* cache/ at the start of a run, so the next run starts on it.
StaleTree == {[path |-> BOOT \o <<"limine", "limine">>, data |-> Built(1)[<<"limine">>].data]}

StaleDirs == Ancestors(Cwd) \cup Ancestors(BUILD) \cup Ancestors(BOOT \o <<"limine">>)

StaleWd == [s \in Steps |-> IF s = 1 THEN Built(s) ELSE Unbuilt]

\* the state in which a run starts after that earlier run
InitStale ==
    /\ pc = "start"
    /\ scripts = <<>>
    /\ i = 0
    /\ result = NoResult
    /\ k = 0
    /\ j = 0
    /\ wd = StaleWd
    /\ tree = StaleTree
    /\ dirs = StaleDirs
    /\ runs = [s \in Steps |-> 0]
    /\ rc = [s \in Steps |-> "not run"]
    /\ parsed = {}
    /\ nplaced = [s \in Steps |-> 0]
    /\ finished = {}
    /\ diag = NoDiag
    /\ exit_status = -1
    /\ xorriso_calls = 0
    /\ limine_calls = 0
    /\ iso = "bootable"

\* ------------------------------------------------------------------------
\* Leaving the program
\* ------------------------------------------------------------------------
\* abort() leaving the loops instead of the process
abort_break(d) ==
    /\ pc' = "iso"
    /\ exit_status' = exit_status
    /\ diag' = d

\* abort() that prints and returns to the statement that called it
abort_returns(d) ==
    /\ pc' = pc
    /\ exit_status' = exit_status
    /\ diag' = d

\* abort() with sys.exit() without a status
abort_exit0(d) ==
    /\ pc' = "aborted"
    /\ exit_status' = 0
    /\ diag' = d

\* abort(): print the abort line and sys.exit(1), after the diagnostic d
abort(d) ==
    /\ pc' = "aborted"
    /\ exit_status' = 1
    /\ diag' = d

\* an exception nobody catches: the interpreter prints the traceback and
\* exits with status 1
Uncaught(exc) ==
    /\ pc' = "aborted"
    /\ exit_status' = 1
    /\ diag' = [msg |-> "Traceback", step |-> 0, arg |-> <<exc>>]

\* ------------------------------------------------------------------------
\* The three nested loops of main()
\* ------------------------------------------------------------------------
Script == scripts[i]
Item   == result.items[k]
Entry  == Item.val.files[j]

\* NextScript with the loop ending one script early
NextScript_skips_last ==
    /\ finished' = finished \cup {Script}
    /\ result' = NoResult
    /\ k' = 0
    /\ j' = 0
    /\ IF i < Len(scripts) - 1
         THEN i' = i + 1 /\ pc' = "run"
         ELSE i' = i /\ pc' = "iso"

\* NextScript with a loop that takes the same script again
NextScript_repeats ==
    /\ finished' = finished \cup {Script}
    /\ result' = NoResult
    /\ k' = 0
    /\ j' = 0
    /\ i' = i
    /\ pc' = "run"

\* for script in scripts: the next iteration, or the code after the loop
NextScript ==
    /\ finished' = finished \cup {Script}
    /\ result' = NoResult
    /\ k' = 0
    /\ j' = 0
    /\ IF i < Len(scripts)
         THEN i' = i + 1 /\ pc' = "run"
         ELSE i' = i /\ pc' = "iso"

\* for kind, files in result.items(): the next iteration, or the next script
NextItem ==
    IF k < Len(result.items)
      THEN /\ k' = k + 1
           /\ j' = 0
           /\ pc' = "kind"
           /\ UNCHANGED <<i, result, finished>>
      ELSE NextScript

\* for file, sub in files.items(): the next iteration, or the next item
NextEntry ==
    IF j < Len(Item.val.files)
      THEN /\ j' = j + 1
           /\ pc' = "place"
           /\ UNCHANGED <<i, result, k, finished>>
      ELSE NextItem

\* ------------------------------------------------------------------------
\* find_build_scripts and the beginning of main
\* ------------------------------------------------------------------------
\* the tree under "." holds n build.py files; rglob lists them once
find_build_scripts(n) == [x \in 1..n |-> x]

\* Discover starting from an emptied staging tree
Discover_clears_tree ==
    /\ pc = "start"
    /\ tree' = {}
    /\ \E n \in 0..MaxSteps :
        /\ scripts' = find_build_scripts(n)
        /\ dirs' = dirs \cup Ancestors(BUILD)
        /\ IF scripts' = <<>>
             THEN /\ abort([msg |-> "No build scripts found", step |-> 0,
                            arg |-> <<>>])
                  /\ UNCHANGED i
             ELSE /\ pc' = "run"
                  /\ i' = 1
                  /\ UNCHANGED <<diag, exit_status>>
    /\ UNCHANGED <<result, k, j, wd, runs, rc, parsed, nplaced, finished,
                   xorriso_calls, limine_calls, iso>>

\* Discover without the "if not scripts" test
Discover_unchecked ==
    /\ pc = "start"
    /\ \E n \in 0..MaxSteps :
        /\ scripts' = find_build_scripts(n)
        /\ dirs' = dirs \cup Ancestors(BUILD)
        /\ IF scripts' = <<>>
             THEN pc' = "iso" /\ i' = i
             ELSE pc' = "run" /\ i' = 1
    /\ UNCHANGED <<result, k, j, wd, tree, runs, rc, parsed, nplaced, finished,
                   diag, exit_status, xorriso_calls, limine_calls, iso>>

Discover ==
    /\ pc = "start"
    /\ \E n \in 0..MaxSteps :
        /\ scripts' = find_build_scripts(n)
        /\ dirs' = dirs \cup Ancestors(BUILD)
        /\ IF scripts' = <<>>
             THEN /\ abort([msg |-> "No build scripts found", step |-> 0,
                            arg |-> <<>>])
                  /\ UNCHANGED i
             ELSE /\ pc' = "run"
                  /\ i' = 1
                  /\ UNCHANGED <<diag, exit_status>>
    /\ UNCHANGED <<result, k, j, wd, tree, runs, rc, parsed, nplaced, finished,
                   xorriso_calls, limine_calls, iso>>

\* ------------------------------------------------------------------------
\* run_build(script)
\* ------------------------------------------------------------------------
\* python3 cannot be started: check_output raises an OSError, which
\* run_build does not catch
RunLaunchFails ==
    /\ rc' = [rc EXCEPT ![Script] = "launch failed"]
    /\ Uncaught("OSError")
    /\ UNCHANGED <<wd, parsed, result, i, k, j, finished>>

\* the child exits nonzero: CalledProcessError, caught
RunExitsNonzero ==
    /\ rc' = [rc EXCEPT ![Script] = "nonzero"]
    /\ \E lay \in {Built(Script), wd[Script]} :
          wd' = [wd EXCEPT ![Script] = lay]
    /\ abort([msg |-> "Build failed", step |-> Script, arg |-> <<>>])
    /\ UNCHANGED <<parsed, result, i, k, j, finished>>

\* the child exits 0 and its stdout goes to json.loads
RunExitsZero ==
    /\ rc' = [rc EXCEPT ![Script] = "zero"]
    /\ \E out \in Outputs :
        /\ wd' = [wd EXCEPT ![Script] = Built(Script)]
        /\ parsed' = parsed \cup {Script}
        /\ IF Loads(out).ok
             THEN /\ result' = Loads(out).value
                  /\ pc' = "check"
                  /\ UNCHANGED <<diag, exit_status>>
             ELSE /\ abort([msg |-> "Invalid JSON", step |-> Script,
                            arg |-> <<>>])
                  /\ UNCHANGED result
    /\ UNCHANGED <<i, k, j, finished>>

run_build ==
    /\ pc = "run"
    /\ runs' = [runs EXCEPT ![Script] = @ + 1]
    /\ \/ RunLaunchFails
       \/ RunExitsNonzero
       \/ RunExitsZero
    /\ UNCHANGED <<scripts, tree, dirs, nplaced, xorriso_calls,
                   limine_calls, iso>>

\* RunExitsZero of a child that prints one of the escaping manifests
RunExitsZeroEscaping ==
    /\ rc' = [rc EXCEPT ![Script] = "zero"]
    /\ \E out \in EscapingOutputs :
        /\ wd' = [wd EXCEPT ![Script] = Built(Script)]
        /\ parsed' = parsed \cup {Script}
        /\ IF Loads(out).ok
             THEN /\ result' = Loads(out).value
                  /\ pc' = "check"
                  /\ UNCHANGED <<diag, exit_status>>
             ELSE /\ abort([msg |-> "Invalid JSON", step |-> Script,
                            arg |-> <<>>])
                  /\ UNCHANGED result
    /\ UNCHANGED <<i, k, j, finished>>

run_build_escaping ==
    /\ pc = "run"
    /\ runs' = [runs EXCEPT ![Script] = @ + 1]
    /\ \/ RunLaunchFails
       \/ RunExitsNonzero
       \/ RunExitsZeroEscaping
    /\ UNCHANGED <<scripts, tree, dirs, nplaced, xorriso_calls,
                   limine_calls, iso>>

\* ------------------------------------------------------------------------
\* The checks of main() on the value run_build returned
\* ------------------------------------------------------------------------
\* isinstance(result, dict)
IsDict(v) == v.type = "object"

CheckResult ==
    /\ pc = "check"
    /\ IF ~IsDict(result)
         THEN /\ abort([msg |-> "Build output is not an object",
                        step |-> Script, arg |-> <<>>])
              /\ UNCHANGED <<i, result, k, j, finished>>
         ELSE /\ NextItem
              /\ UNCHANGED <<diag, exit_status>>
    /\ UNCHANGED <<scripts, wd, tree, dirs, runs, rc, parsed, nplaced,
                   xorriso_calls, limine_calls, iso>>

\* kind in BASES
KnownKind(kind) == kind \in DOMAIN BASES

\* isinstance(files, dict)
IsFileMap(val) == val.isdict

CheckKind ==
    /\ pc = "kind"
    /\ IF ~KnownKind(Item.kind)
         THEN /\ abort([msg |-> "Unknown build type", step |-> 0,
                        arg |-> <<Item.kind>>])
              /\ UNCHANGED <<i, result, k, j, finished>>
         ELSE IF ~IsFileMap(Item.val)
         THEN /\ abort([msg |-> "Invalid file map", step |-> Script,
                        arg |-> <<>>])
              /\ UNCHANGED <<i, result, k, j, finished>>
         ELSE /\ NextEntry
              /\ UNCHANGED <<diag, exit_status>>
    /\ UNCHANGED <<scripts, wd, tree, dirs, runs, rc, parsed, nplaced,
                   xorriso_calls, limine_calls, iso>>

\* ------------------------------------------------------------------------
\* place_file(build_dir, file, target_base, subpath)
\* ------------------------------------------------------------------------
\* src = build_dir / file, relative to the working directory
SrcOf(file) == PathOf(file).segs

\* DstOf without the subpath
DstOf_no_subpath(src, target_base, subpath) ==
    Join(target_base, [abs |-> FALSE, segs |-> NameOf(src)])

\* dst = target_base / subpath / src.name
DstOf(src, target_base, subpath) ==
    Join(Join(target_base, PathOf(subpath.s)),
         [abs |-> FALSE, segs |-> NameOf(src)])

\* dst.parent.mkdir(parents=True, exist_ok=True) fails when the directory
\* or one of its ancestors is a regular file
MkdirFails(t, dir) == {r.path : r \in t} \cap MadeDirs(dir) # {}

\* shutil.copy(src, dst) writes to dst, or into dst when dst is a directory
CopyTarget(d, src, dst) ==
    IF Norm(dst) \in d THEN Norm(dst) \o NameOf(src) ELSE Norm(dst)

\* WriteFile that leaves a file that is already there alone
WriteFile_keeps_first(t, path, data) ==
    IF \E r \in t : r.path = path
      THEN t
      ELSE t \cup {[path |-> path, data |-> data]}

\* the files on disk after writing data at path
WriteFile(t, path, data) ==
    {r \in t : r.path # path} \cup {[path |-> path, data |-> data]}

\* place_file creating the destination directory before it looks for src
place_file_mkdir_first(build_dir, file, target_base, subpath, t, d) ==
    LET src    == Join(build_dir, PathOf(file))
        st     == Stat(t, d, Norm(src))
        dst    == DstOf(src, target_base, subpath)
        made   == d \cup MadeDirs(ParentOf(dst))
        target == CopyTarget(made, src, dst)
    IN  IF subpath.type # "string"
          THEN [end |-> "TypeError", tree |-> t, dirs |-> d, dst |-> <<>>]
        ELSE IF MkdirFails(t, ParentOf(dst))
          THEN [end |-> "FileExistsError", tree |-> t, dirs |-> d,
                dst |-> dst]
        ELSE IF st.kind = "missing"
          THEN [end |-> "not found", tree |-> t, dirs |-> made, dst |-> <<>>]
        ELSE IF target = Norm(src)
          THEN [end |-> "SameFileError", tree |-> t, dirs |-> made,
                dst |-> dst]
        ELSE IF st.kind = "dir" \/ target \in made
          THEN [end |-> "IsADirectoryError", tree |-> t, dirs |-> made,
                dst |-> dst]
        ELSE [end |-> "copied", tree |-> WriteFile(t, target, st.data),
              dirs |-> made, dst |-> dst]

\* what one call does, from the files t and the directories d on disk:
\* the way it ends and what is on disk afterwards
place_file(build_dir, file, target_base, subpath, t, d) ==
    LET src    == Join(build_dir, PathOf(file))
        st     == Stat(t, d, Norm(src))
        dst    == DstOf(src, target_base, subpath)
        made   == d \cup MadeDirs(ParentOf(dst))
        target == CopyTarget(made, src, dst)
    IN  IF st.kind = "missing"
          THEN [end |-> "not found", tree |-> t, dirs |-> d, dst |-> <<>>]
        ELSE IF subpath.type # "string"
          THEN [end |-> "TypeError", tree |-> t, dirs |-> d, dst |-> <<>>]
        ELSE IF MkdirFails(t, ParentOf(dst))
          THEN [end |-> "FileExistsError", tree |-> t, dirs |-> d,
                dst |-> dst]
        ELSE IF target = Norm(src)
          THEN [end |-> "SameFileError", tree |-> t, dirs |-> made,
                dst |-> dst]
        ELSE IF st.kind = "dir" \/ target \in made
          THEN [end |-> "IsADirectoryError", tree |-> t, dirs |-> made,
                dst |-> dst]
        ELSE [end |-> "copied", tree |-> WriteFile(t, target, st.data),
              dirs |-> made, dst |-> dst]

\* PlaceFile in a loop that looks for build.py again after every copy
PlaceFile_rescans ==
    /\ pc = "place"
    /\ \E ss \in {{scripts[x] : x \in DOMAIN scripts}} :
       \E t \in {tree \cup WdFiles(wd, ss)}, d \in {dirs \cup WdDirs(ss)} :
       \E r \in {place_file(StepDir(Script), Entry.file, BASES[Item.kind],
                            Entry.sub, t, d)} :
           /\ tree' = TreeAfter(r.tree)
           /\ wd' = WdAfter(wd, r.tree)
           /\ dirs' = dirs \cup (r.dirs \ WdDirs(ss))
           /\ scripts' =
                IF /\ \E f \in tree' : NameOf(f.path) = <<"build.py">>
                   /\ Len(scripts) < MaxSteps
                  THEN Append(scripts, Len(scripts) + 1)
                  ELSE scripts
           /\ IF r.end = "copied"
                THEN /\ nplaced' = [nplaced EXCEPT ![Script] = @ + 1]
                     /\ NextEntry
                     /\ UNCHANGED <<diag, exit_status>>
                ELSE /\ IF r.end = "not found"
                          THEN abort([msg |-> "File not found",
                                      step |-> Script,
                                      arg |-> SrcOf(Entry.file)])
                          ELSE Uncaught(r.end)
                     /\ UNCHANGED <<nplaced, i, result, k, j, finished>>
    /\ UNCHANGED <<runs, rc, parsed, xorriso_calls, limine_calls, iso>>

\* one call of place_file from the inner loop of main().  The call works on
\* the whole disk: the files and directories of the working directories of
\* the discovered steps are on it like those of the staging tree.
PlaceFile ==
    /\ pc = "place"
    /\ \E ss \in {{scripts[x] : x \in DOMAIN scripts}} :
       \E t \in {tree \cup WdFiles(wd, ss)}, d \in {dirs \cup WdDirs(ss)} :
       \E r \in {place_file(StepDir(Script), Entry.file, BASES[Item.kind],
                            Entry.sub, t, d)} :
           /\ tree' = TreeAfter(r.tree)
           /\ wd' = WdAfter(wd, r.tree)
           /\ dirs' = dirs \cup (r.dirs \ WdDirs(ss))
           /\ IF r.end = "copied"
                THEN /\ nplaced' = [nplaced EXCEPT ![Script] = @ + 1]
                     /\ NextEntry
                     /\ UNCHANGED <<diag, exit_status>>
                ELSE /\ IF r.end = "not found"
                          THEN abort([msg |-> "File not found",
                                      step |-> Script,
                                      arg |-> SrcOf(Entry.file)])
                          ELSE Uncaught(r.end)
                     /\ UNCHANGED <<nplaced, i, result, k, j, finished>>
    /\ UNCHANGED <<scripts, runs, rc, parsed, xorriso_calls, limine_calls,
                   iso>>

\* ------------------------------------------------------------------------
\* The two external tools at the end of main()
\* ------------------------------------------------------------------------
\* AssembleImage without check=True: a failure of xorriso goes unnoticed
AssembleImage_nocheck ==
    /\ pc = "iso"
    /\ xorriso_calls' = xorriso_calls + 1
    /\ \/ /\ iso' = "assembled"
          /\ pc' = "limine"
          /\ UNCHANGED <<diag, exit_status>>
       \/ /\ iso' \in {iso, "partial"}
          /\ pc' = "limine"
          /\ UNCHANGED <<diag, exit_status>>
       \/ /\ iso' = iso
          /\ Uncaught("OSError")
    /\ UNCHANGED <<scripts, i, result, k, j, wd, tree, dirs, runs, rc, parsed,
                   nplaced, finished, limine_calls>>

\* subprocess.run(["xorriso", ...], check=True)
AssembleImage ==
    /\ pc = "iso"
    /\ xorriso_calls' = xorriso_calls + 1
    /\ \/ /\ iso' = "assembled"
          /\ pc' = "limine"
          /\ UNCHANGED <<diag, exit_status>>
       \/ /\ iso' \in {iso, "partial"}
          /\ Uncaught("CalledProcessError")
       \/ /\ iso' = iso
          /\ Uncaught("OSError")
    /\ UNCHANGED <<scripts, i, result, k, j, wd, tree, dirs, runs, rc, parsed,
                   nplaced, finished, limine_calls>>

\* InstallLimine removing the image when limine fails
InstallLimine_cleans_up ==
    /\ pc = "limine"
    /\ limine_calls' = limine_calls + 1
    /\ \/ /\ iso' = "bootable"
          /\ pc' = "done"
          /\ exit_status' = 0
          /\ UNCHANGED diag
       \/ /\ iso' = "absent"
          /\ Uncaught("CalledProcessError")
       \/ /\ iso' = "absent"
          /\ Uncaught("OSError")
    /\ UNCHANGED <<scripts, i, result, k, j, wd, tree, dirs, runs, rc, parsed,
                   nplaced, finished, xorriso_calls>>

\* subprocess.run(["limine", "bios-install", ...], check=True)
InstallLimine ==
    /\ pc = "limine"
    /\ limine_calls' = limine_calls + 1
    /\ \/ /\ iso' = "bootable"
          /\ pc' = "done"
          /\ exit_status' = 0
          /\ UNCHANGED diag
       \/ /\ iso' \in {iso, "partial"}
          /\ Uncaught("CalledProcessError")
       \/ /\ iso' = iso
          /\ Uncaught("OSError")
    /\ UNCHANGED <<scripts, i, result, k, j, wd, tree, dirs, runs, rc, parsed,
                   nplaced, finished, xorriso_calls>>

Next ==
    \/ Discover
    \/ run_build
    \/ CheckResult
    \/ CheckKind
    \/ PlaceFile
    \/ AssembleImage
    \/ InstallLimine

Spec == Init /\ [][Next]_vars

\* a run that follows an earlier run in the same directory
SpecStale == InitStale /\ [][Next]_vars

\* a run in a source tree whose steps print the escaping manifests
NextEscaping ==
    \/ Discover
    \/ run_build_escaping
    \/ CheckResult
    \/ CheckKind
    \/ PlaceFile
    \/ AssembleImage
    \/ InstallLimine

SpecEscaping == Init /\ [][NextEscaping]_vars

\* main() is one thread of straight-line code, and check_output and run
\* return when the child has exited: as long as the run is not over the
\* interpreter takes its next step
FairEscaping == SpecEscaping /\ WF_vars(NextEscaping)

\* ------------------------------------------------------------------------
\* Properties
\* ------------------------------------------------------------------------
Discovered == {scripts[x] : x \in 1..Len(scripts)}

FileAt(t, path) == {r.data : r \in {q \in t : q.path = path}}

\* the diagnostics main() prints for a document of the wrong shape
SchemaMsgs ==
    {"Build output is not an object", "Unknown build type",
     "Invalid file map"}

\* C1: xorriso is called at most once, and only when every discovered step
\* was run once, had its output parsed and ran its loop body to the end; a
\* run that stopped inside a step never called it.
C1_AssemblerAfterAllSteps ==
    /\ xorriso_calls <= 1
    /\ xorriso_calls > 0 =>
          /\ scripts # <<>>
          /\ \A s \in Discovered :
                s \in finished /\ rc[s] = "zero" /\ s \in parsed
    /\ (pc = "aborted" /\ Discovered \ finished # {}) => xorriso_calls = 0

C1_Witness ==
    /\ xorriso_calls = 1
    /\ Len(scripts) >= 2
    /\ \A s \in Discovered : nplaced[s] >= 1

\* a document whose top level is a mapping, whose keys are all in the closed
\* category set and whose category values are all mappings
CategoriesValid(v) ==
    /\ v.type = "object"
    /\ \A x \in DOMAIN v.items :
          /\ v.items[x].kind \in {"generic", "boot", "master", "addon"}
          /\ v.items[x].val.isdict

\* C2: no file of a step is placed unless the whole manifest of the step
\* passed schema validation: a step that has placed a file has a manifest
\* with only known categories and only mappings as category values.
C2_NoPlacementBeforeValidation ==
    (i >= 1 /\ result # NoResult /\ nplaced[Script] > 0)
        => CategoriesValid(result)

\* a document that is valid in full: categories as above and every entry
\* value a string
SpecValid(v) ==
    /\ CategoriesValid(v)
    /\ \A x \in DOMAIN v.items :
          \A y \in DOMAIN v.items[x].val.files :
              v.items[x].val.files[y].sub.type = "string"

InStep == pc \in {"check", "kind", "place"}

\* C3: a document is accepted (its step runs to the end) only if it is valid
\* in full, and a document that makes the run stop is reported with a schema
\* diagnostic exactly when it is not valid in full.
C3_AcceptsIffValid ==
    [][/\ (InStep /\ finished' # finished) => SpecValid(result)
       /\ (InStep /\ pc' = "aborted") =>
              (diag'.msg \in SchemaMsgs <=> ~SpecValid(result))]_vars

EntryDest ==
    BASES[Item.kind] \o PathOf(Entry.sub.s).segs \o NameOf(SrcOf(Entry.file))

\* the file system refuses the mkdir or the copy at EntryDest
EntryBlocked ==
    \/ \E r \in tree : r.path \in Ancestors(ParentOf(EntryDest))
    \/ EntryDest \in dirs

C5_FailFast ==
    /\ [](diag # NoDiag => (pc = "aborted" /\ exit_status = 1))
    /\ [][pc = "aborted" =>
            /\ runs' = runs /\ rc' = rc /\ parsed' = parsed
            /\ tree' = tree /\ dirs' = dirs /\ nplaced' = nplaced
            /\ xorriso_calls' = xorriso_calls
            /\ limine_calls' = limine_calls /\ iso' = iso]_vars

C5_Witness ==
    /\ pc = "aborted"
    /\ Len(scripts) >= 2
    /\ nplaced[scripts[1]] >= 1
    /\ rc[scripts[2]] = "not run"
    /\ xorriso_calls = 0

\* C6: the exit status is 0 exactly when at least one step was discovered,
\* every step ran to its end and both tools succeeded; every run with a
\* diagnostic, and every run that stopped early, has exit status 1.
C6_ExitStatus ==
    /\ exit_status = 0 <=>
          /\ scripts # <<>>
          /\ \A s \in Discovered : s \in finished /\ rc[s] = "zero"
          /\ xorriso_calls = 1 /\ limine_calls = 1
          /\ iso = "bootable"
    /\ exit_status = 0 => (pc = "done" /\ diag = NoDiag)
    /\ (diag # NoDiag \/ pc = "aborted") => exit_status = 1
    /\ exit_status \in {0, 1} <=> pc \in {"done", "aborted"}

C6_Witness ==
    /\ exit_status = 0
    /\ Len(scripts) >= 2
    /\ tree # {}

\* C7: an entry whose source file does not exist stops the run with the
\* "File not found" diagnostic and writes nothing: the files and the
\* directories on disk are those from before the entry.
C7_MissingSourceWritesNothing ==
    [][(pc = "place" /\ Lookup(wd[Script], SrcOf(Entry.file)).kind = "missing")
         => /\ pc' = "aborted"
            /\ diag'.msg = "File not found"
            /\ diag'.step = Script
            /\ tree' = tree
            /\ dirs' = dirs
            /\ nplaced' = nplaced]_vars

C7_Witness ==
    /\ pc = "aborted"
    /\ diag.msg = "File not found"
    /\ Len(scripts) >= 2
    /\ diag.step = scripts[2]
    /\ nplaced[scripts[1]] >= 1
    /\ nplaced[scripts[2]] >= 1
    /\ Cardinality(tree) >= 2

\* C8: limine is called at most once, only when every step has run to its
\* end and xorriso has been called once and has succeeded; a failing xorriso
\* ends the run, so that limine is not called.
C8_BootloaderAfterAssembler ==
    /\ [](/\ limine_calls <= 1
          /\ limine_calls > 0 =>
                /\ xorriso_calls = 1
                /\ \A s \in Discovered : s \in finished)
    /\ [][limine_calls' # limine_calls =>
            (iso = "assembled" /\ xorriso_calls = 1)]_vars
    /\ [][(xorriso_calls' # xorriso_calls /\ iso' # "assembled") =>
            (pc' = "aborted" /\ limine_calls' = 0)]_vars

C8_Witness ==
    /\ limine_calls = 1
    /\ xorriso_calls = 1
    /\ tree # {}

\* C9: a discovery that finds no build step ends the run with the discovery
\* diagnostic and status 1; no step was run, nothing was placed and neither
\* tool was called.
C9_NoStepsIsAnError ==
    (pc # "start" /\ scripts = <<>>) =>
        /\ pc = "aborted"
        /\ exit_status = 1
        /\ diag.msg = "No build scripts found"
        /\ \A s \in Steps : runs[s] = 0 /\ nplaced[s] = 0
        /\ tree = {}
        /\ xorriso_calls = 0
        /\ limine_calls = 0
        /\ iso = "absent"

C9_Witness ==
    /\ pc = "aborted"
    /\ scripts = <<>>
    /\ diag.msg = "No build scripts found"

\* C10: a step whose child exited nonzero or could not be launched ends the
\* run with the execution diagnostic that names the step; its output was
\* not parsed and none of its files was placed; only the output of a child
\* that exited 0 is parsed.
C10_ExecutionErrorNamesStep ==
    \A s \in Steps :
        /\ rc[s] \in {"launch failed", "nonzero"} =>
              /\ pc = "aborted"
              /\ diag.msg = "Build failed"
              /\ diag.step = s
              /\ s \notin parsed
              /\ nplaced[s] = 0
        /\ s \in parsed => rc[s] = "zero"

\* the paths of the regular files on disk
PathsOf(t) == {r.path : r \in t}

\* the files of t that are not at path
Others(t, path) == {r \in t : r.path # path}

\* C11: the last applied placement wins.  A placement that copies its file
\* leaves the content of its own source at the one path it writes (the
\* resolved destination, or the place of that name inside it when the
\* destination is a directory), whatever an earlier placement had put there,
\* and changes no other file; between placements no file changes.  Steps are
\* taken in discovery order and entries in manifest order, so the content at
\* the end of the run is that of the last placement on each path.
C11_LastWriteWins ==
    [][/\ (pc = "place" /\ nplaced' # nplaced) =>
              \E p \in {EntryDest, EntryDest \o NameOf(SrcOf(Entry.file))} :
                  /\ FileAt(tree', p)
                        = {Lookup(wd[Script], SrcOf(Entry.file)).data}
                  /\ Others(tree', p) = Others(tree, p)
                  /\ nplaced' = [nplaced EXCEPT ![Script] = @ + 1]
       /\ (pc # "place" \/ nplaced' = nplaced) => tree' = tree]_vars

\* two steps have placed one file each on the same path and the run is over
C11_Witness ==
    /\ pc = "done"
    /\ Len(scripts) >= 2
    /\ nplaced[scripts[1]] = 1
    /\ nplaced[scripts[2]] = 1
    /\ tree = {[path |-> BOOT \o <<"limine", "limine">>,
                data |-> wd[scripts[2]][<<"limine">>].data]}
    /\ wd[scripts[1]][<<"limine">>].data # wd[scripts[2]][<<"limine">>].data

\* the steps whose child was started and whose loop body has not ended
InProgress == {s \in Steps : runs[s] > 0 /\ s \notin finished}

\* C12: every discovered step is run at most once and steps are handled one
\* at a time: a child is started only when every earlier step has run to
\* its end, at most one step is in progress, and only the step in progress
\* places files.
C12_OneStepAtATime ==
    /\ [](/\ \A s \in Steps : runs[s] <= 1 /\ (runs[s] > 0 => s \in Discovered)
          /\ \A x \in 1..Len(scripts) :
                runs[scripts[x]] > 0 =>
                    \A y \in 1..(x - 1) : scripts[y] \in finished
          /\ Cardinality(InProgress) <= 1
          /\ \A s \in InProgress : s = Script)
    /\ [][\A s \in Steps :
            nplaced'[s] # nplaced[s] =>
                (s = Script /\ InProgress = {s} /\ runs'[s] = 1)]_vars
    /\ [][\A s \in Steps :
            runs'[s] # runs[s] => (InProgress = {} /\ pc = "run")]_vars

C12_Witness ==
    /\ Len(scripts) >= 2
    /\ pc = "place"
    /\ Script = scripts[2]
    /\ runs[scripts[1]] = 1
    /\ runs[scripts[2]] = 1
    /\ nplaced[scripts[1]] >= 1

\* C13: when limine fails after xorriso has succeeded the run ends with
\* status 1 and the image is still on disk: it is what limine left of the
\* image xorriso wrote (untouched when limine could not be started), and
\* the orchestrator does nothing to it afterwards.
C13_ImageKeptOnBootloaderFailure ==
    /\ [][(pc = "limine" /\ pc' = "aborted") =>
            /\ iso = "assembled"
            /\ exit_status' = 1
            /\ iso' \in {"assembled", "partial"}
            /\ (diag'.arg = <<"OSError">> => iso' = iso)]_vars
    /\ [][pc = "aborted" => iso' = iso]_vars

C13_Witness ==
    /\ pc = "aborted"
    /\ limine_calls = 1
    /\ xorriso_calls = 1
    /\ iso = "assembled"
    /\ exit_status = 1

\* the earlier run of InitStale ends with exactly the disk InitStale starts on
LeftByEarlierRun ==
    /\ pc = "done"
    /\ tree = StaleTree
    /\ dirs = StaleDirs
    /\ wd = StaleWd
    /\ iso = "bootable"

\* C14: nothing is ever removed from the staging tree.  No step of a run,
\* successful or aborted, takes a file or a directory away, also in a run
\* that starts on the tree an earlier run left; so the files of the earlier
\* run and every file placed in this run are still there, overwritten
\* perhaps, when xorriso is called.
C14_TreeOnlyGrows ==
    /\ [][PathsOf(tree) \subseteq PathsOf(tree') /\ dirs \subseteq dirs']_vars
    /\ [](xorriso_calls > 0 => PathsOf(StaleTree) \subseteq PathsOf(tree))
    /\ [](Cardinality(PathsOf(tree)) = Cardinality(tree))

\* xorriso is called on a tree where this run has overwritten the file of
\* the earlier run and has placed a second file
C14_Witness ==
    /\ pc = "limine"
    /\ xorriso_calls = 1
    /\ \E r \in tree : r.path \in PathsOf(StaleTree) /\ r \notin StaleTree
    /\ Cardinality(tree) >= 2

\* every regular file on disk, in the staging tree or in a working directory
Disk == tree \cup WdFiles(wd, Steps)

\* path lies below the directory base
Under(base, path) ==
    Len(path) > Len(base) /\ SubSeq(path, 1, Len(base)) = base

\* C15: placement copies and does not move, and leaves the working
\* directories alone: the source of a placed entry is still there with the
\* same content, and no call of place_file creates, changes or removes a
\* file of the working directory of any step.
C15_PlacementLeavesWorkdirs ==
    [][pc = "place" =>
         /\ wd' = wd
         /\ (nplaced' # nplaced =>
                /\ Lookup(wd'[Script], SrcOf(Entry.file)).kind = "file"
                /\ Lookup(wd'[Script], SrcOf(Entry.file))
                      = Lookup(wd[Script], SrcOf(Entry.file)))]_vars

\* C17: every file a placement writes lies below the root of the category
\* of its entry, and so inside cache/iso_root, also when the subpath of
\* the entry is absolute or climbs with "..".
C17_WritesStayInCategory ==
    [][pc = "place" =>
         \A f \in Disk' \ Disk :
             Under(BASES[Item.kind], f.path) /\ Under(ROOT, f.path)]_vars

\* the scripts that were run
Executed == {s \in Steps : runs[s] > 0}

\* C18: the steps of a run are those of one discovery made before the first
\* step: the list of scripts never changes once it is made, only scripts of
\* that list are run, and a build.py that appears under the scanned
\* directory during the run (a step's own script copied into the staging
\* tree) adds no step.
C18_OneDiscoverySnapshot ==
    /\ [][pc # "start" => scripts' = scripts]_vars
    /\ [](pc = "start" => Executed = {})
    /\ [](Executed \subseteq Discovered)
    /\ [](Cardinality(Executed) <= Len(scripts))

\* the run is over, a build.py lies in the staging tree, and the steps that
\* were run are the discovered ones
C18_Witness ==
    /\ pc = "done"
    /\ \E f \in tree : NameOf(f.path) = <<"build.py">> /\ Under(ROOT, f.path)
    /\ Len(scripts) < MaxSteps
    /\ Executed = Discovered

\* C16: every error ends with a diagnostic that names the failing stage and
\* artifact.  A run that stopped inside a step has printed a diagnostic
\* that names that step, with the category when the category or its value
\* was refused and the file when a placement failed; a run that stopped in
\* xorriso or limine has printed a diagnostic (the traceback of the failed
\* call, which carries the command line).
C16_ErrorsNameStageAndArtifact ==
    pc = "aborted" =>
        /\ diag # NoDiag
        /\ (scripts # <<>> /\ xorriso_calls = 0) =>
              /\ diag.step = Script
              /\ k > 0 /\ j = 0 => diag.arg = <<Item.kind>>
              /\ j > 0 => diag.arg = SrcOf(Entry.file)

Terminal == pc \in {"done", "aborted"}

\* C19: every run ends.  When every child exits, the run reaches "done"
\* with status 0 or "aborted" with status 1 and stays there, never both;
\* no step's child is started twice, so no more children are started than
\* steps were discovered.
C19_RunTerminates ==
    <>[](/\ Terminal
         /\ pc = "done" => exit_status = 0
         /\ pc = "aborted" => exit_status = 1
         /\ \A s \in Steps : runs[s] <= 1
         /\ Cardinality(Executed) <= Len(scripts))

\* a run of MaxSteps steps has ended with status 0 after each step went
\* through two categories and placed three files
C19_Witness ==
    /\ pc = "done"
    /\ exit_status = 0
    /\ Len(scripts) = MaxSteps
    /\ \A s \in Steps : runs[s] = 1 /\ nplaced[s] = 3

====
